---------------------------- MODULE Spec2Model ----------------------------
(***************************************************************************)
(* Model of src/index.js: the Inspired catalog API.  A JSON catalog is     *)
(* loaded once (db), and one HTTP request listener dispatches every        *)
(* request: image assets, OPTIONS, categories, colors, 404, the goods      *)
(* list (filter / search / list / top / pagination) and the item lookup.   *)
(*                                                                         *)
(* JavaScript strings are sequences of one-character strings, so that      *)
(* substring, split, trim, toLowerCase, decodeURIComponent and unary plus  *)
(* are computed as the code computes them.                                 *)
(***************************************************************************)
EXTENDS Integers, Sequences, FiniteSets, TLC

(***************************************************************************)
(* Bounds of the model.                                                    *)
(***************************************************************************)
\* longest catalog (db.goods) of the main specification
MaxGoods == 2
\* most key=value pieces in a query string
MaxPieces == 2
\* most image reads in flight (readFile callbacks not yet run)
MaxReads == 1
\* matching items beyond the 8 a top query keeps, in the top specification
TopExtra == 0

(***************************************************************************)
(* JavaScript values.                                                      *)
(***************************************************************************)
\* undefined: a one-element sequence that is no string of characters
Undefined == <<"undefined">>
\* numbers are records: an integer [n |-> 5], NaN (a failed numeric
\* coercion) or Infinity (a positive length divided by zero)
Num(n) == [n |-> n]
NaN == [nan |-> TRUE]
Infinity == [inf |-> TRUE]
IsInt(x) == DOMAIN x = {"n"}
\* an empty slot of an array whose length was raised (serialised as null)
Hole == [hole |-> TRUE]

Min(a, b) == IF a < b THEN a ELSE b
Max(a, b) == IF a > b THEN a ELSE b

\* String.prototype.substring(from, to) with 0-based from (inclusive), to (exclusive)
Substring(s, from, to) ==
  LET f == Min(Max(from, 0), Len(s))
      t == Min(Max(to, 0), Len(s))
  IN SubSeq(s, Min(f, t) + 1, Max(f, t))

\* String.prototype.startsWith
StartsWith(s, p) == Len(p) <= Len(s) /\ SubSeq(s, 1, Len(p)) = p

\* String.prototype.includes
Includes(s, sub) ==
  \/ sub = <<>>
  \/ \E k \in 0..(Len(s) - Len(sub)) :
       s[k + 1] = sub[1] /\ SubSeq(s, k + 1, k + Len(sub)) = sub

Uppers == <<"A","B","C","D","E","F","G","H","I","J","K","L","M",
            "N","O","P","Q","R","S","T","U","V","W","X","Y","Z">>
Lowers == <<"a","b","c","d","e","f","g","h","i","j","k","l","m",
            "n","o","p","q","r","s","t","u","v","w","x","y","z">>

\* String.prototype.toLowerCase
ToLowerCase(s) ==
  [k \in 1..Len(s) |->
     IF \E u \in 1..26 : Uppers[u] = s[k]
       THEN Lowers[CHOOSE u \in 1..26 : Uppers[u] = s[k]]
       ELSE s[k]]

RECURSIVE TrimStart(_)
TrimStart(s) == IF s # <<>> /\ Head(s) = " " THEN TrimStart(Tail(s)) ELSE s

RECURSIVE TrimEnd(_)
TrimEnd(s) ==
  IF s # <<>> /\ s[Len(s)] = " " THEN TrimEnd(SubSeq(s, 1, Len(s) - 1)) ELSE s

\* String.prototype.trim
Trim(s) == TrimEnd(TrimStart(s))

\* String.prototype.split(sep) for a one-character separator: always >= 1 part
RECURSIVE Split(_, _)
Split(s, sep) ==
  IF \E k \in 1..Len(s) : s[k] = sep
    THEN LET k == CHOOSE i \in 1..Len(s) :
                    s[i] = sep /\ \A h \in 1..(i - 1) : s[h] # sep
         IN <<SubSeq(s, 1, k - 1)>> \o Split(SubSeq(s, k + 1, Len(s)), sep)
    ELSE <<s>>

\* array destructuring [a, b] = parts: a missing element is undefined
At(parts, k) == IF k <= Len(parts) THEN parts[k] ELSE Undefined

\* truthiness of a string-or-undefined value
Truthy(v) == v # Undefined /\ v # <<>>

HexDigits == {"0","1","2","3","4","5","6","7","8","9",
              "A","B","C","D","E","F","a","b","c","d","e","f"}

\* the escapes below 0x80 that the modelled requests use
AsciiOf == [p \in {<<"2","0">>, <<"4","1">>, <<"6","2">>} |->
              CASE p = <<"2","0">> -> " "
                [] p = <<"4","1">> -> "A"
                [] p = <<"6","2">> -> "b"]

\* decodeURIComponent: [ok |-> TRUE, v |-> decoded] or a URIError.  A "%" not
\* followed by two hex digits, or a lone byte >= 0x80, is malformed.
RECURSIVE DecodeURIComponent(_)
DecodeURIComponent(s) ==
  IF s = <<>> THEN [ok |-> TRUE, v |-> <<>>]
  ELSE IF Head(s) # "%"
    THEN LET r == DecodeURIComponent(Tail(s))
         IN IF r.ok THEN [ok |-> TRUE, v |-> <<Head(s)>> \o r.v] ELSE r
  ELSE IF Len(s) < 3 \/ s[2] \notin HexDigits \/ s[3] \notin HexDigits
            \/ s[2] \notin {"0","1","2","3","4","5","6","7"}
    THEN [ok |-> FALSE]
  ELSE LET r == DecodeURIComponent(SubSeq(s, 4, Len(s)))
           c == IF <<s[2], s[3]>> \in DOMAIN AsciiOf
                  THEN AsciiOf[<<s[2], s[3]>>] ELSE "other"
       IN IF r.ok THEN [ok |-> TRUE, v |-> <<c>> \o r.v] ELSE r

Digits == <<"0","1","2","3","4","5","6","7","8","9">>
IsDigit(c) == \E d \in 1..10 : Digits[d] = c
DigitValue(c) == (CHOOSE d \in 1..10 : Digits[d] = c) - 1

RECURSIVE DecimalValue(_)
DecimalValue(s) ==
  IF s = <<>> THEN 0
  ELSE 10 * DecimalValue(SubSeq(s, 1, Len(s) - 1)) + DigitValue(s[Len(s)])

\* ToNumber of a string-or-undefined (unary plus, and the operands of * - /):
\* whitespace is trimmed, "" is 0, an optionally signed run of digits is its
\* value, anything else (undefined too) is NaN.
ToNumber(v) ==
  IF v = Undefined THEN NaN
  ELSE LET t == Trim(v)
           signed == t # <<>> /\ Head(t) \in {"-", "+"}
           ds == IF signed THEN Tail(t) ELSE t
       IN IF t = <<>> THEN Num(0)
          ELSE IF ds = <<>> \/ \E k \in 1..Len(ds) : ~IsDigit(ds[k]) THEN NaN
          ELSE IF Head(t) = "-" THEN Num(0 - DecimalValue(ds))
          ELSE Num(DecimalValue(ds))

\* a * b and a - b on numbers
Times(a, b) == IF IsInt(a) /\ IsInt(b) THEN Num(a.n * b.n) ELSE NaN
Minus(a, b) == IF IsInt(a) /\ IsInt(b) THEN Num(a.n - b.n) ELSE NaN

\* Math.ceil(len / count) for an array length len >= 0
CeilDiv(len, count) ==
  IF ~IsInt(count) THEN NaN
  ELSE IF count.n = 0 THEN (IF len = 0 THEN NaN ELSE Infinity)
  ELSE IF count.n > 0 THEN Num((len + count.n - 1) \div count.n)
  ELSE Num(0 - (len \div (0 - count.n)))

\* ToIntegerOrInfinity of a slice bound, then made relative to the length
RelativeIndex(x, len) ==
  LET k == IF IsInt(x) THEN x.n ELSE 0
  IN IF k < 0 THEN Max(len + k, 0) ELSE Min(k, len)

\* Array.prototype.slice(start, end)
Slice(array, start, end) ==
  LET from == RelativeIndex(start, Len(array))
      to == RelativeIndex(end, Len(array))
  IN SubSeq(array, from + 1, to)

(***************************************************************************)
(* Program constants.                                                      *)
(***************************************************************************)
\* const URI_PREFIX = "/api/goods"
URI_PREFIX == <<"/","a","p","i","/","g","o","o","d","s">>
\* +params.page || 1
DefaultPage == 1
\* params.count || 12
DefaultCount == 12
\* data.length = 8
TopLength == 8

\* the parameter names getGoodsList reads
K_top == <<"t","o","p">>
K_gender == <<"g","e","n","d","e","r">>
K_category == <<"c","a","t","e","g","o","r","y">>
K_type == <<"t","y","p","e">>
K_search == <<"s","e","a","r","c","h">>
K_list == <<"l","i","s","t">>
K_page == <<"p","a","g","e">>
K_count == <<"c","o","u","n","t">>

\* params.key: undefined when the key was never assigned
Get(params, key) == IF key \in DOMAIN params THEN params[key] ELSE Undefined

\* queryParams[key] = value
Put(params, key, value) ==
  [k \in DOMAIN params \cup {key} |-> IF k = key THEN value ELSE params[k]]

(***************************************************************************)
(* shuffle: Fisher-Yates over a copy.  rnd[i] is the value of              *)
(* Math.floor(Math.random() * (i + 1)) drawn at loop index i, so           *)
(* rnd[i] \in 0..i for i = length-1 down to 1.                             *)
(***************************************************************************)
\* [a[i], a[j]] = [a[j], a[i]] on 0-based indices
Swap(a, i, j) == [a EXCEPT ![i + 1] = a[j + 1], ![j + 1] = a[i + 1]]

RECURSIVE ShuffleLoop(_, _, _)
ShuffleLoop(shuffleArray, i, rnd) ==
  IF i > 0 THEN ShuffleLoop(Swap(shuffleArray, i, rnd[i]), i - 1, rnd)
  ELSE shuffleArray

\* mutant: the loop starts one index too low and never moves the last element
shuffle_SkipsLast(array, rnd) == ShuffleLoop(array, Len(array) - 2, rnd)

shuffle(array, rnd) == ShuffleLoop(array, Len(array) - 1, rnd)

\* every sequence of draws the loop can make on an array of the given length
RECURSIVE Randoms(_)
Randoms(length) ==
  IF length <= 1 THEN {<<>>}
  ELSE {Append(r, j) : r \in Randoms(length - 1), j \in 0..(length - 1)}

\* array.length = n: truncates, or pads with empty slots
SetLength(array, n) ==
  [k \in 1..n |-> IF k <= Len(array) THEN array[k] ELSE Hole]

(***************************************************************************)
(* pagination                                                              *)
(***************************************************************************)
\* mutant: Math.floor in place of Math.ceil
pagination_FloorPages(data, page, count) ==
  LET end == Times(count, page)
      start == IF page = Num(1) THEN Num(0) ELSE Minus(end, count)
  IN [kind |-> "page",
      goods |-> Slice(data, start, end),
      page |-> page,
      pages |-> IF IsInt(count) /\ count.n > 0
                  THEN Num(Len(data) \div count.n)
                  ELSE CeilDiv(Len(data), count),
      totalCount |-> Len(data)]

pagination(data, page, count) ==
  LET end == Times(count, page)
      start == IF page = Num(1) THEN Num(0) ELSE Minus(end, count)
  IN [kind |-> "page",
      goods |-> Slice(data, start, end),
      page |-> page,
      pages |-> CeilDiv(Len(data), count),
      totalCount |-> Len(data)]

(***************************************************************************)
(* getGoodsList and getItems.  A call either returns a value or throws.    *)
(***************************************************************************)
Return(v) == [type |-> "return", value |-> v]
\* throw new ApiError(statusCode, data)
ApiError(statusCode, message) ==
  [type |-> "throw", api |-> TRUE, statusCode |-> statusCode, message |-> message]

\* +params.page || 1
PageOf(params) ==
  LET n == ToNumber(Get(params, K_page))
  IN IF n = NaN \/ n = Num(0) THEN Num(DefaultPage) ELSE n

\* params.count || 12; the string is coerced to a number by each of the
\* arithmetic operations of pagination (count * page, end - count, length / count)
CountOf(params) ==
  IF Truthy(Get(params, K_count)) THEN ToNumber(Get(params, K_count))
  ELSE Num(DefaultCount)

\* item.top && item.gender === params.top
TopData(goods, params) ==
  LET Test(item) == item.top /\ item.gender = Get(params, K_top)
  IN SelectSeq(goods, Test)

\* the gender, category and type filters applied to the copy of db.goods
FilterData(goods, params) ==
  LET gender == Get(params, K_gender)
      category == Get(params, K_category)
      type == Get(params, K_type)
      ByGender(item) == item.gender = gender
      ByCategory(item) == item.category = category
      ByType(item) == item.type = type
      d1 == IF Truthy(gender) THEN SelectSeq(goods, ByGender) ELSE goods
      d2 == IF Truthy(category) THEN SelectSeq(d1, ByCategory) ELSE d1
  IN IF Truthy(type) THEN SelectSeq(d2, ByType) ELSE d2

\* the search callback on one item (title and description are strings in
\* every record of db.json)
SearchTest(item, search) ==
  \/ Includes(ToLowerCase(item.title), search)
  \/ Includes(ToLowerCase(item.description), search)

\* mutant: the search filters the narrowed data, not db.goods
SearchData_Narrowed(goods, params) ==
  LET search == ToLowerCase(Trim(Get(params, K_search)))
      Test(item) == SearchTest(item, search)
  IN SelectSeq(FilterData(goods, params), Test)

SearchData(goods, params) ==
  LET search == ToLowerCase(Trim(Get(params, K_search)))
      Test(item) == SearchTest(item, search)
  IN SelectSeq(goods, Test)

\* mutant: the list filters the narrowed data, not db.goods
ListData_Narrowed(goods, params) ==
  LET list == ToLowerCase(Trim(Get(params, K_list)))
      Test(item) == Includes(list, item.id)
  IN SelectSeq(FilterData(goods, params), Test)

\* db.goods.filter((item) => list.includes(item.id))
ListData(goods, params) ==
  LET list == ToLowerCase(Trim(Get(params, K_list)))
      Test(item) == Includes(list, item.id)
  IN SelectSeq(goods, Test)

\* mutant: the list branch is taken before the category check
getGoodsList_ListFirst(goods, params, rnd) ==
  IF Truthy(Get(params, K_top))
    THEN Return([kind |-> "list",
                 items |-> SetLength(shuffle(TopData(goods, params), rnd), TopLength)])
  ELSE IF Truthy(Get(params, K_list))
    THEN Return([kind |-> "list", items |-> ListData(goods, params)])
  ELSE IF Truthy(Get(params, K_category)) /\ ~Truthy(Get(params, K_gender))
    THEN ApiError(403, "Not gender params")
  ELSE LET data == IF Truthy(Get(params, K_search))
                     THEN SearchData(goods, params)
                     ELSE FilterData(goods, params)
       IN Return(pagination(data, PageOf(params), CountOf(params)))

getGoodsList(goods, params, rnd) ==
  IF Truthy(Get(params, K_top))
    THEN Return([kind |-> "list",
                 items |-> SetLength(shuffle(TopData(goods, params), rnd), TopLength)])
  ELSE IF Truthy(Get(params, K_category)) /\ ~Truthy(Get(params, K_gender))
    THEN ApiError(403, "Not gender params")
  ELSE IF Truthy(Get(params, K_list))
    THEN Return([kind |-> "list", items |-> ListData(goods, params)])
  ELSE LET data == IF Truthy(Get(params, K_search))
                     THEN SearchData(goods, params)
                     ELSE FilterData(goods, params)
       IN Return(pagination(data, PageOf(params), CountOf(params)))

\* mutant: a missing item is returned as undefined, nothing is thrown
getItems_NoThrow(goods, itemId) ==
  IF \E k \in 1..Len(goods) : goods[k].id = itemId
    THEN Return([kind |-> "item",
                 item |-> goods[CHOOSE k \in 1..Len(goods) : goods[k].id = itemId]])
    ELSE Return([kind |-> "empty"])

getItems(goods, itemId) ==
  IF \E k \in 1..Len(goods) : goods[k].id = itemId
    THEN Return([kind |-> "item",
                 item |-> goods[CHOOSE k \in 1..Len(goods) :
                             /\ goods[k].id = itemId
                             /\ \A h \in 1..(k - 1) : goods[h].id # itemId]])
    ELSE ApiError(404, "Item Not Found")

(***************************************************************************)
(* State.                                                                  *)
(***************************************************************************)
VARIABLES
  db,            \* the parsed db.json: [goods, categories, colors]
  loaded,        \* history: db as it was loaded at startup
  requireBound,  \* whether the host binds `require` in the module's scope
  req,           \* the request the listener is running on (NoRequest: idle)
  res,           \* that request's response object as the listener left it
  reads          \* image requests whose readFile callback has not run yet

vars == <<db, loaded, requireBound, req, res, reads>>

(***************************************************************************)
(* The response object.                                                    *)
(***************************************************************************)
\* a fresh ServerResponse: statusCode 200, no headers, not ended
NewResponse == [statusCode |-> 200, headers |-> {}, body |-> [kind |-> "none"],
                ended |-> FALSE]

\* res.setHeader(name, value)
SetHeader(r, name, value) ==
  [r EXCEPT !.headers = {h \in @ : h[1] # name} \cup {<<name, value>>}]

\* res.end(body)
End(r, body) == [r EXCEPT !.body = body, !.ended = TRUE]

\* mutant: Access-Control-Allow-Methods is not set
JsonHeaders_NoMethods(r) ==
  SetHeader(SetHeader(SetHeader(r,
    "Content-Type", "application/json"),
    "Access-Control-Allow-Origin", "*"),
    "Access-Control-Allow-Headers", "Content-Type")

\* the Content-Type and CORS headers set for every request that is no image
JsonHeaders(r) ==
  SetHeader(SetHeader(SetHeader(SetHeader(r,
    "Content-Type", "application/json"),
    "Access-Control-Allow-Origin", "*"),
    "Access-Control-Allow-Methods", "GET, OPTIONS"),
    "Access-Control-Allow-Headers", "Content-Type")

\* the image branch before the read: statusCode 200 and the image content type
ImageHeaders(r) ==
  SetHeader([r EXCEPT !.statusCode = 200], "Content-Type", "image/jpeg")

\* JSON.stringify(body): an empty slot, NaN and Infinity are written as null
Null == [null |-> TRUE]
JsonNumber(x) == IF IsInt(x) THEN x ELSE Null
JsonStringify(body) ==
  IF body.kind = "list"
    THEN [body EXCEPT !.items =
            [k \in 1..Len(@) |-> IF @[k] = Hole THEN Null ELSE @[k]]]
  ELSE IF body.kind = "page"
    THEN [body EXCEPT !.page = JsonNumber(@), !.pages = JsonNumber(@)]
  ELSE body

Message(text) == [kind |-> "message", message |-> text]

(***************************************************************************)
(* The request listener, branch by branch.                                 *)
(***************************************************************************)
S_img == <<"i","m","g">>
S_categories == <<"/","a","p","i","/","c","a","t","e","g","o","r","i","e","s">>
S_colors == <<"/","a","p","i","/","c","o","l","o","r","s">>

\* req.url.substring(1, 4) === "img"
IsImage(r) == Substring(r.url, 1, 4) = S_img
IsOptions(r) == ~IsImage(r) /\ r.method = "OPTIONS"
IsCategories(r) ==
  ~IsImage(r) /\ r.method # "OPTIONS" /\ Includes(r.url, S_categories)
IsColors(r) ==
  /\ ~IsImage(r) /\ r.method # "OPTIONS"
  /\ ~Includes(r.url, S_categories) /\ Includes(r.url, S_colors)
IsOutside(r) ==
  /\ ~IsImage(r) /\ r.method # "OPTIONS"
  /\ ~Includes(r.url, S_categories) /\ ~Includes(r.url, S_colors)
IsNotFound(r) == IsOutside(r) /\ (r.url = <<>> \/ ~StartsWith(r.url, URI_PREFIX))
IsApi(r) == IsOutside(r) /\ r.url # <<>> /\ StartsWith(r.url, URI_PREFIX)

\* const [uri, query] = req.url.substring(URI_PREFIX.length).split("?")
UriOf(url) == At(Split(Substring(url, Len(URI_PREFIX), Len(url)), "?"), 1)
QueryOf(url) == At(Split(Substring(url, Len(URI_PREFIX), Len(url)), "?"), 2)

\* the loop over query.split("&"): [ok |-> TRUE, params |-> queryParams], or
\* [ok |-> FALSE] when decodeURIComponent throws a URIError
RECURSIVE ParsePieces(_, _)
ParsePieces(pieces, params) ==
  IF pieces = <<>> THEN [ok |-> TRUE, params |-> params]
  ELSE LET kv == Split(Head(pieces), "=")
           key == At(kv, 1)
           value == At(kv, 2)
           decoded == IF Truthy(value) THEN DecodeURIComponent(value)
                      ELSE [ok |-> TRUE, v |-> <<>>]
       IN IF decoded.ok
            THEN ParsePieces(Tail(pieces), Put(params, key, decoded.v))
            ELSE [ok |-> FALSE]

NoParams == [k \in {} |-> <<>>]

queryParams(url) ==
  IF Truthy(QueryOf(url)) THEN ParsePieces(Split(QueryOf(url), "&"), NoParams)
  ELSE [ok |-> TRUE, params |-> NoParams]

\* the body of the try block: undefined for a method other than GET
Body(goods, r, rnd) ==
  LET uri == UriOf(r.url)
  IN IF r.method # "GET" THEN Return([kind |-> "empty"])
     ELSE IF uri = <<>> \/ uri = <<"/">>
       THEN getGoodsList(goods, queryParams(r.url).params, rnd)
     ELSE getItems(goods, Substring(uri, 1, Len(uri)))

\* try { res.end(JSON.stringify(body)) } catch (err) { ... }: an ApiError
\* gives its status and data, any other error 500
Respond(r, outcome) ==
  IF outcome.type = "return" THEN End(r, JsonStringify(outcome.value))
  ELSE IF outcome.api
    THEN End([r EXCEPT !.statusCode = outcome.statusCode], Message(outcome.message))
  ELSE End([r EXCEPT !.statusCode = 500], Message("Server Error"))

\* the listener on a request under URI_PREFIX: a URIError of the query loop
\* is thrown before the try block, so the listener's promise rejects with
\* the response never ended
ApiResponse(goods, r, rnd) ==
  IF ~queryParams(r.url).ok THEN JsonHeaders(NewResponse)
  ELSE Respond(JsonHeaders(NewResponse), Body(goods, r, rnd))

\* the Math.random draws the listener makes on a request
Draws(goods, r) ==
  IF /\ r.method = "GET" /\ UriOf(r.url) \in {<<>>, <<"/">>}
     /\ queryParams(r.url).ok
     /\ Truthy(Get(queryParams(r.url).params, K_top))
    THEN Randoms(Len(TopData(goods, queryParams(r.url).params)))
    ELSE {<<>>}

\* mutant: the top branch filters and shuffles db.goods itself
GoodsAfter_InPlace(goods, r, rnd) ==
  IF /\ r.method = "GET" /\ UriOf(r.url) \in {<<>>, <<"/">>}
     /\ queryParams(r.url).ok
     /\ Truthy(Get(queryParams(r.url).params, K_top))
    THEN shuffle(TopData(goods, queryParams(r.url).params), rnd)
    ELSE goods

\* getGoodsList and getItems read db.goods and write only to copies of it
\* ([...db.goods], the arrays filter returns, shuffle's [...array])
GoodsAfter(goods, r, rnd) == goods

(***************************************************************************)
(* The catalogs and requests the model draws from.                         *)
(***************************************************************************)
Item(id, gender, category, type, top, title, description) ==
  [id |-> id, gender |-> gender, category |-> category, type |-> type,
   top |-> top, title |-> title, description |-> description]

\* four records of db.json
ItemPool ==
  { Item(<<"1">>, <<"w">>, <<"d">>, <<"t">>, TRUE, <<"A","b">>, <<"c">>),
    Item(<<"2">>, <<"w">>, <<"s">>, <<"u">>, FALSE, <<"x">>, <<"a","B">>),
    Item(<<"1","2">>, <<"m">>, <<"d">>, <<"t">>, TRUE, <<"b">>, <<"y">>),
    Item(<<"A">>, <<"w">>, <<"d">>, <<"u">>, TRUE, <<"c">>, <<"z">>) }

\* the sequences of at most n distinct elements of S
RECURSIVE Arrangements(_, _)
Arrangements(S, n) ==
  IF n = 0 THEN {<<>>}
  ELSE {<<>>} \cup UNION {{<<x>> \o a : a \in Arrangements(S \ {x}, n - 1)} : x \in S}

Catalog(goods) ==
  [goods |-> goods, categories |-> <<"dress", "shirt">>, colors |-> <<"red">>]

Catalogs == {Catalog(goods) : goods \in Arrangements(ItemPool, MaxGoods)}

\* key=value pieces of a query string, values as they travel in the URL
PiecePool ==
  << K_top \o <<"=","w">>,
     K_gender \o <<"=","w">>,
     K_gender \o <<"=","m">>,
     K_category \o <<"=","d">>,
     K_category \o <<"=">>,
     K_type \o <<"=","t">>,
     K_search \o <<"=","b">>,
     K_search \o <<"=","%","2","0","A">>,
     K_search \o <<"=","%">>,
     K_list \o <<"=","%","2","0","A","1","2">>,
     K_page \o <<"=","2">>,
     K_page \o <<"=","-","1">>,
     K_page \o <<"=","x">>,
     K_count \o <<"=","1">>,
     K_count \o <<"=","2">> >>

\* the choices of at most n pieces, in the order of the pool, from index k on
RECURSIVE Choices(_, _)
Choices(k, n) ==
  IF n = 0 \/ k > Len(PiecePool) THEN {<<>>}
  ELSE {<<>>} \cup UNION {{<<PiecePool[i]>> \o q : q \in Choices(i + 1, n - 1)} :
                           i \in k..Len(PiecePool)}

RECURSIVE Join(_, _)
Join(pieces, sep) ==
  IF pieces = <<>> THEN <<>>
  ELSE IF Len(pieces) = 1 THEN Head(pieces)
  ELSE Head(pieces) \o <<sep>> \o Join(Tail(pieces), sep)

QueryString(pieces) == IF pieces = <<>> THEN <<>> ELSE <<"?">> \o Join(pieces, "&")

Get_(url) == [method |-> "GET", url |-> url]

\* GET /api/goods?...
ListRequests == {Get_(URI_PREFIX \o QueryString(q)) : q \in Choices(1, MaxPieces)}

\* GET /api/goods/{id} for the ids of the pool and an id no item has
ItemRequests ==
  {Get_(URI_PREFIX \o <<"/">> \o id) : id \in {i.id : i \in ItemPool} \cup {<<"9">>}}

OtherRequests ==
  { Get_(URI_PREFIX \o <<"/">>),
    Get_(<<"/","i","m","g","/","1">>),
    Get_(S_categories),
    Get_(S_colors),
    Get_(<<"/","a","p","i">>),
    [method |-> "OPTIONS", url |-> URI_PREFIX],
    [method |-> "POST", url |-> URI_PREFIX],
    [method |-> "POST", url |-> URI_PREFIX \o <<"/","1">>] }

Requests == ListRequests \cup ItemRequests \cup OtherRequests

NoRequest == [method |-> "none", url |-> <<>>]

(***************************************************************************)
(* Actions.  The listener runs to completion on one request at a time      *)
(* (Node's event loop); only the readFile callback of an image request     *)
(* runs later.                                                             *)
(***************************************************************************)
Init ==
  /\ db \in Catalogs
  /\ loaded = db
  /\ requireBound \in BOOLEAN
  /\ req = NoRequest
  /\ res = NewResponse
  /\ reads = <<>>

\* an image request: `require` is unbound in an ES module's scope, and the
\* ReferenceError leaves the response un-ended; where it is bound, the read
\* is started and the listener returns
ImageRequest(r) ==
  /\ req = NoRequest
  /\ IsImage(r)
  /\ requireBound => Len(reads) < MaxReads
  /\ req' = r
  /\ res' = ImageHeaders(NewResponse)
  /\ reads' = IF requireBound THEN Append(reads, r) ELSE reads
  /\ UNCHANGED <<db, loaded, requireBound>>

\* readFile's callback (err, image) => res.end(image): image is undefined
\* when the read fails
ReadFileCallback ==
  /\ req = NoRequest
  /\ \E k \in 1..Len(reads), image \in {"image", "empty"} :
       /\ req' = reads[k]
       /\ res' = End(ImageHeaders(NewResponse), [kind |-> image])
       /\ reads' = SubSeq(reads, 1, k - 1) \o SubSeq(reads, k + 1, Len(reads))
  /\ UNCHANGED <<db, loaded, requireBound>>

OptionsRequest(r) ==
  /\ req = NoRequest
  /\ IsOptions(r)
  /\ req' = r
  /\ res' = End(JsonHeaders(NewResponse), [kind |-> "empty"])
  /\ UNCHANGED <<db, loaded, requireBound, reads>>

CategoriesRequest(r) ==
  /\ req = NoRequest
  /\ IsCategories(r)
  /\ req' = r
  /\ res' = End(JsonHeaders(NewResponse), [kind |-> "value", value |-> db.categories])
  /\ UNCHANGED <<db, loaded, requireBound, reads>>

ColorsRequest(r) ==
  /\ req = NoRequest
  /\ IsColors(r)
  /\ req' = r
  /\ res' = End(JsonHeaders(NewResponse), [kind |-> "value", value |-> db.colors])
  /\ UNCHANGED <<db, loaded, requireBound, reads>>

NotFoundRequest(r) ==
  /\ req = NoRequest
  /\ IsNotFound(r)
  /\ req' = r
  /\ res' = End([JsonHeaders(NewResponse) EXCEPT !.statusCode = 404],
                Message("Not Found"))
  /\ UNCHANGED <<db, loaded, requireBound, reads>>

ApiRequest(r) ==
  /\ req = NoRequest
  /\ IsApi(r)
  /\ \E rnd \in Draws(db.goods, r) :
       /\ req' = r
       /\ res' = ApiResponse(db.goods, r, rnd)
       /\ db' = [db EXCEPT !.goods = GoodsAfter(db.goods, r, rnd)]
  /\ UNCHANGED <<loaded, requireBound, reads>>

\* the listener has returned: its req and res go out of scope
Finish ==
  /\ req # NoRequest
  /\ req' = NoRequest
  /\ res' = NewResponse
  /\ UNCHANGED <<db, loaded, requireBound, reads>>

Next ==
  \/ \E r \in Requests :
       \/ ImageRequest(r)
       \/ OptionsRequest(r)
       \/ CategoriesRequest(r)
       \/ ColorsRequest(r)
       \/ NotFoundRequest(r)
       \/ ApiRequest(r)
  \/ ReadFileCallback
  \/ Finish

Spec == Init /\ [][Next]_vars

(***************************************************************************)
(* Vocabulary of the properties.                                           *)
(***************************************************************************)
\* the listener has run on a request
Handled == req # NoRequest

\* GET /api/goods or /api/goods/ with a query string that decodes
GoodsListRequest ==
  /\ Handled /\ IsApi(req) /\ req.method = "GET"
  /\ UriOf(req.url) \in {<<>>, <<"/">>}
  /\ queryParams(req.url).ok

Params == queryParams(req.url).params

\* the decimal digits of a number n >= 0
RECURSIVE Decimal(_)
Decimal(n) ==
  IF n < 10 THEN <<Digits[n + 1]>> ELSE Append(Decimal(n \div 10), Digits[(n % 10) + 1])

\* the items of the page that the same request returns with page = p
PageItems(goods, params, p) ==
  getGoodsList(goods, Put(params, K_page, Decimal(p)), <<>>).value.goods

\* pages 1..pages of the request, concatenated in page order
RECURSIVE ConcatPages(_, _, _, _)
ConcatPages(goods, params, p, pages) ==
  IF p > pages THEN <<>>
  ELSE PageItems(goods, params, p) \o ConcatPages(goods, params, p + 1, pages)

\* the position of an item in a catalog without repeated items
PositionIn(goods, item) == CHOOSE k \in 1..Len(goods) : goods[k] = item

\* items is a selection of goods in the order of goods, no item twice
InCatalogOrder(items, goods) ==
  /\ \A k \in 1..Len(items) : \E g \in 1..Len(goods) : goods[g] = items[k]
  /\ \A k \in 1..Len(items) : \A h \in 1..(k - 1) :
       PositionIn(goods, items[h]) < PositionIn(goods, items[k])

\* the set of elements of a sequence
Range(seq) == {seq[k] : k \in 1..Len(seq)}

\* a paginated result was sent with status 200
PageSent == res.ended /\ res.statusCode = 200 /\ res.body.kind = "page"

\* a goods-list request with no top and no list and an integer count > 0
\* was answered with a paginated result
PaginatedCase ==
  /\ Handled /\ PageSent /\ GoodsListRequest
  /\ ~Truthy(Get(Params, K_top)) /\ ~Truthy(Get(Params, K_list))
  /\ IsInt(CountOf(Params)) /\ CountOf(Params).n > 0

\* the set getGoodsList hands to pagination
FilteredSet ==
  IF Truthy(Get(Params, K_search)) THEN SearchData(db.goods, Params)
  ELSE FilterData(db.goods, Params)

(***************************************************************************)
(* C1: for a goods-list request with no top and no list and an integer     *)
(* count > 0, every page 1..pages holds at most count items, and the       *)
(* pages concatenated in page order are the filtered set: each item once,  *)
(* none missing, in the order of the catalog.                              *)
(***************************************************************************)
C1_PagesCoverFilteredSet ==
  PaginatedCase =>
    LET pages == res.body.pages.n
        all == ConcatPages(db.goods, Params, 1, pages)
    IN /\ \A p \in 1..pages :
            Len(PageItems(db.goods, Params, p)) <= CountOf(Params).n
       /\ all = FilteredSet
       /\ Len(all) = res.body.totalCount
       /\ InCatalogOrder(all, db.goods)

\* a filtered set of several items spread over more than one page
C1_Witness ==
  /\ PaginatedCase
  /\ res.body.pages.n >= 2
  /\ res.body.totalCount >= 2
  /\ Truthy(Get(Params, K_gender))

(***************************************************************************)
(* C2 as stated: every goods-list request whose params carry a category    *)
(* but no gender fails with status 403 and {message: "Not gender params"}, *)
(* whatever the category value and the other params (here already for a    *)
(* category that is not empty).                                            *)
(***************************************************************************)
NotGenderSent ==
  /\ res.ended /\ res.statusCode = 403
  /\ res.body = Message("Not gender params")

C2_CategoryWithoutGenderAlways403 ==
  (/\ GoodsListRequest
   /\ Truthy(Get(Params, K_category)) /\ K_gender \notin DOMAIN Params)
    => NotGenderSent

(***************************************************************************)
(* C2 amended: every goods-list request whose params carry a non-empty     *)
(* category, no gender and no non-empty top fails with status 403 and      *)
(* {message: "Not gender params"}, whatever list, search, type, page and   *)
(* count accompany it.                                                     *)
(***************************************************************************)
C2_Case ==
  /\ GoodsListRequest
  /\ Truthy(Get(Params, K_category)) /\ K_gender \notin DOMAIN Params
  /\ ~Truthy(Get(Params, K_top))

C2_CategoryWithoutGender403 == C2_Case => NotGenderSent

\* the 403 is sent although a list accompanies the category
C2_Witness == C2_Case /\ NotGenderSent /\ Truthy(Get(Params, K_list))

(***************************************************************************)
(* C3: GET /api/goods/{id} answers 200 with exactly the catalog item of    *)
(* that id when the catalog has one, and 404 {message: "Item Not Found"}   *)
(* when it has none.                                                       *)
(***************************************************************************)
\* the ids requested: those of the pool and one that no item has
RequestedIds == {i.id : i \in ItemPool} \cup {<<"9">>}

C3_ItemLookup ==
  \A id \in RequestedIds :
    (Handled /\ req = Get_(URI_PREFIX \o <<"/">> \o id)) =>
      IF \E k \in 1..Len(db.goods) : db.goods[k].id = id
        THEN /\ res.ended /\ res.statusCode = 200
             /\ res.body.kind = "item"
             /\ res.body.item \in Range(db.goods)
             /\ res.body.item.id = id
        ELSE /\ res.ended /\ res.statusCode = 404
             /\ res.body = Message("Item Not Found")

\* an item found behind another one of the catalog
C3_Witness ==
  /\ Handled /\ Len(db.goods) >= 2
  /\ req = Get_(URI_PREFIX \o <<"/">> \o db.goods[2].id)
  /\ res.ended /\ res.statusCode = 200 /\ res.body.item = db.goods[2]

(***************************************************************************)
(* C4: when a goods-list request with a non-empty search is paginated,     *)
(* the paginated set (totalCount, and the pages concatenated) is exactly   *)
(* the items of the whole catalog whose title or description contains the  *)
(* trimmed, lowercased search string, whatever gender, category and type   *)
(* were sent with it.                                                      *)
(***************************************************************************)
C4_Case ==
  /\ Handled /\ PageSent /\ GoodsListRequest
  /\ Truthy(Get(Params, K_search))
  /\ IsInt(CountOf(Params)) /\ CountOf(Params).n > 0

C4_Matches(item) ==
  LET search == ToLowerCase(Trim(Get(Params, K_search)))
  IN \/ Includes(ToLowerCase(item.title), search)
     \/ Includes(ToLowerCase(item.description), search)

C5_Listed(item) == Includes(ToLowerCase(Trim(Get(Params, K_list))), item.id)

ListSent ==
  /\ res.ended /\ res.statusCode = 200
  /\ res.body = [kind |-> "list", items |-> SelectSeq(loaded.goods, C5_Listed)]

C5_ListBypassesAllFilters ==
  (/\ GoodsListRequest
   /\ Truthy(Get(Params, K_list)) /\ ~Truthy(Get(Params, K_top)))
    => ListSent

(***************************************************************************)
(* C5 amended: the same, unless a non-empty category is sent without a     *)
(* gender: that request fails with 403 before the list is read.  With a    *)
(* gender, or without a category, the result is the same whatever search,  *)
(* gender, category, type, page and count are sent.                        *)
(***************************************************************************)
C5_Case ==
  /\ GoodsListRequest
  /\ Truthy(Get(Params, K_list)) /\ ~Truthy(Get(Params, K_top))
  /\ ~(Truthy(Get(Params, K_category)) /\ ~Truthy(Get(Params, K_gender)))

C5_ListBypassesFilters == C5_Case => ListSent

\* a list sent with a gender that would drop one of the listed items
C5_Witness ==
  /\ C5_Case /\ ListSent
  /\ Truthy(Get(Params, K_gender))
  /\ \E k \in 1..Len(res.body.items) :
       res.body.items[k].gender # Get(Params, K_gender)
  /\ Len(res.body.items) < Len(db.goods)

(***************************************************************************)
(* C6: every request ends with a response: an error thrown at any step of  *)
(* handling it is mapped to a response (an ApiError to its status and      *)
(* payload, any other error to 500), and no thrown error leaves the        *)
(* request unanswered.  A response not yet ended is one whose readFile     *)
(* callback is still to run.                                               *)
(***************************************************************************)
C6_EveryRequestAnswered ==
  Handled => (res.ended \/ \E k \in 1..Len(reads) : reads[k] = req)

(***************************************************************************)
(* C7 as stated: every response sent, on every dispatch branch (the image  *)
(* branch too), carries a Content-Type header and the CORS headers         *)
(* Access-Control-Allow-Origin: * and Access-Control-Allow-Methods:        *)
(* GET, OPTIONS.                                                           *)
(***************************************************************************)
HasCors(r) ==
  /\ <<"Access-Control-Allow-Origin", "*">> \in r.headers
  /\ <<"Access-Control-Allow-Methods", "GET, OPTIONS">> \in r.headers

HasContentType(r) == \E h \in r.headers : h[1] = "Content-Type"

C8_PageResultWellFormed ==
  PaginatedCase =>
    /\ IsInt(res.body.page) /\ res.body.page.n >= 1
    /\ res.body.pages = CeilDiv(res.body.totalCount, CountOf(Params))
    /\ res.body.totalCount = Len(FilteredSet)
    /\ res.body.page.n \notin 1..res.body.pages.n => res.body.goods = <<>>

(***************************************************************************)
(* C10: after any sequence of requests the catalog (goods, categories,     *)
(* colors) is what was loaded at startup, and the response to a request    *)
(* that is no top query depends only on that request.                      *)
(***************************************************************************)
\* what the listener answers to r on the catalog as loaded, r not an image
AnswerOnLoaded(r) ==
  IF IsOptions(r) THEN End(JsonHeaders(NewResponse), [kind |-> "empty"])
  ELSE IF IsCategories(r)
    THEN End(JsonHeaders(NewResponse), [kind |-> "value", value |-> loaded.categories])
  ELSE IF IsColors(r)
    THEN End(JsonHeaders(NewResponse), [kind |-> "value", value |-> loaded.colors])
  ELSE IF IsNotFound(r)
    THEN End([JsonHeaders(NewResponse) EXCEPT !.statusCode = 404], Message("Not Found"))
  ELSE ApiResponse(loaded.goods, r, <<>>)

IsTopQuery(r) ==
  /\ IsApi(r) /\ r.method = "GET" /\ UriOf(r.url) \in {<<>>, <<"/">>}
  /\ queryParams(r.url).ok /\ Truthy(Get(queryParams(r.url).params, K_top))

TopItem(k) ==
  Item(Decimal(k), <<"w">>, <<"d">>, <<"t">>, TRUE, <<"A","b">>, <<"c">>)

\* n matching items, with an item that is not top behind the first and an
\* item of the other gender at the end
TopCatalog(n) ==
  Catalog(<<TopItem(1)>>
          \o <<Item(<<"a">>, <<"w">>, <<"d">>, <<"t">>, FALSE, <<"x">>, <<"y">>)>>
          \o [k \in 1..(n - 1) |-> TopItem(k + 1)]
          \o <<Item(<<"b">>, <<"m">>, <<"d">>, <<"t">>, TRUE, <<"x">>, <<"y">>)>>)

TopCatalogs == {TopCatalog(n) : n \in TopLength..(TopLength + TopExtra)}

\* GET /api/goods?top=w
TopRequests == {Get_(URI_PREFIX \o <<"?">> \o K_top \o <<"=","w">>)}

InitTop ==
  /\ db \in TopCatalogs
  /\ loaded = db
  /\ requireBound = FALSE
  /\ req = NoRequest
  /\ res = NewResponse
  /\ reads = <<>>

NextTop ==
  \/ \E r \in TopRequests : ApiRequest(r)
  \/ Finish

SpecTop == InitTop /\ [][NextTop]_vars

(***************************************************************************)
(* C9: when at least 8 catalog items are top and of the gender asked for,  *)
(* a top query returns a raw sequence of exactly 8 pairwise distinct items *)
(* that satisfy the filter, and every ordered selection of 8 of the        *)
(* matching items is a possible result: for each there are draws of        *)
(* Math.random with which shuffle and the cut to 8 produce it.             *)
(***************************************************************************)
\* the draws with which the loop leaves the elements of a, a sequence of
\* indices, in the order target: at loop index i the draw is where
\* target[i + 1] stands
RECURSIVE DrawsLoop(_, _, _)
DrawsLoop(a, i, target) ==
  IF i = 0 THEN <<>>
  ELSE LET j == (CHOOSE k \in 1..(i + 1) : a[k] = target[i + 1]) - 1
       IN Append(DrawsLoop(Swap(a, i, j), i - 1, target), j)

\* draws for a result that starts with the indices t of a data of length n
DrawsFor(n, t) ==
  LET picked == {t[k] : k \in 1..Len(t)}
      NotPicked(x) == x \notin picked
      identity == [k \in 1..n |-> k]
  IN DrawsLoop(identity, n - 1, t \o SelectSeq(identity, NotPicked))

C9_Matching == TopData(loaded.goods, [k \in {K_top} |-> <<"w">>])

\* the selection t of indices of the matching items is a possible result
C9_Possible(matching, t) ==
  LET n == Len(matching)
      rnd == DrawsFor(n, t)
      out == shuffle(matching, rnd)
  IN /\ \A i \in 1..(n - 1) : rnd[i] \in 0..i
     /\ \A k \in 1..TopLength : out[k] = matching[t[k]]

\* every ordered selection of TopLength indices that extends t with indices
\* of the set left is a possible result
RECURSIVE C9_AllPossible(_, _, _)
C9_AllPossible(matching, t, left) ==
  IF Len(t) = TopLength THEN C9_Possible(matching, t)
  ELSE \A x \in left : C9_AllPossible(matching, Append(t, x), left \ {x})

=============================================================================
